---------------------------- MODULE Spec2Model ----------------------------
(***************************************************************************)
(* FAT boot sector / BIOS Parameter Block: codec, validator, geometry      *)
(* accessors and formatting engine of src/src/boot_sector.rs.              *)
(*                                                                         *)
(* Unsigned 32- and 64-bit quantities do not fit TLC's integers, so they   *)
(* are carried as four 16-bit limbs, least significant first ("Big").      *)
(* u8 and u16 quantities, and every value provably below 2^31, are plain   *)
(* integers.  A u32 is a Big whose two upper limbs are zero.               *)
(***************************************************************************)
EXTENDS Naturals, Integers, Sequences, FiniteSets, TLC

VARIABLES
    debug,      \* build profile: TRUE = overflow checks and debug assertions on
    options,    \* FormatVolumeOptions handed to format_boot_sector, or NoOptions
    medium,     \* the 512 bytes of the first sector of the storage medium
    boot,       \* the in-memory BootSector
    saved,      \* the BootSector that was last serialized (history)
    fat_type,   \* second component of format_boot_sector's result
    result,     \* result of the last fallible operation
    warnings,   \* compatibility warnings logged by the last validation
    pc,         \* position in the lifecycle of the boot sector
    q_in,       \* arguments of the pure sizing function under evaluation
    q_out       \* its result

vars == <<debug, options, medium, boot, saved, fat_type, result, warnings, pc, q_in, q_out>>

----------------------------------------------------------------------------
(* Wide unsigned arithmetic on four 16-bit limbs (values below 2^64).      *)

W == 2^16

Zero == <<0, 0, 0, 0>>

\* a plain integer 0 <= x < 2^31 as a Big
N(x) == <<x % W, (x \div W) % W, 0, 0>>

\* the two halves of a u32 as a Big
Big32(lo, hi) == <<lo, hi, 0, 0>>

IsU32(a) == a[3] = 0 /\ a[4] = 0

\* `as u32`
Low32(a) == <<a[1], a[2], 0, 0>>

\* value of a Big known to be below 2^31
Small(a) == a[1] + W * a[2]

FitsSmall(a) == a[2] < 32768 /\ a[3] = 0 /\ a[4] = 0

BigAdd(a, b) ==
    LET s1 == a[1] + b[1]
        s2 == a[2] + b[2] + (s1 \div W)
        s3 == a[3] + b[3] + (s2 \div W)
        s4 == a[4] + b[4] + (s3 \div W)
    IN  <<s1 % W, s2 % W, s3 % W, s4 % W>>

BigNot(a) == <<W - 1 - a[1], W - 1 - a[2], W - 1 - a[3], W - 1 - a[4]>>

\* a - b modulo 2^64
BigSub(a, b) == BigAdd(BigAdd(a, BigNot(b)), N(1))

BigLess(a, b) ==
    \/ a[4] < b[4]
    \/ a[4] = b[4] /\ a[3] < b[3]
    \/ a[4] = b[4] /\ a[3] = b[3] /\ a[2] < b[2]
    \/ a[4] = b[4] /\ a[3] = b[3] /\ a[2] = b[2] /\ a[1] < b[1]

BigLeq(a, b) == ~BigLess(b, a)

\* a * m modulo 2^64, for 0 <= m < 2^15
MulLimb(a, m) ==
    LET p1 == a[1] * m
        p2 == a[2] * m + (p1 \div W)
        p3 == a[3] * m + (p2 \div W)
        p4 == a[4] * m + (p3 \div W)
    IN  <<p1 % W, p2 % W, p3 % W, p4 % W>>

\* a * m modulo 2^64, for 0 <= m < 2^23
BigMul(a, m) == BigAdd(MulLimb(a, m % 256), MulLimb(MulLimb(a, m \div 256), 256))

\* bytes of a Big, most significant first
BytesBE(a) ==
    <<a[4] \div 256, a[4] % 256, a[3] \div 256, a[3] % 256,
      a[2] \div 256, a[2] % 256, a[1] \div 256, a[1] % 256>>

FromBytesBE(b) ==
    <<b[7] * 256 + b[8], b[5] * 256 + b[6], b[3] * 256 + b[4], b[1] * 256 + b[2]>>

\* long division of the byte string b (most significant first) by d, remainder r
RECURSIVE DivBytes(_, _, _)
DivBytes(b, d, r) ==
    IF b = <<>> THEN <<>>
    ELSE LET cur == r * 256 + Head(b)
         IN  <<cur \div d>> \o DivBytes(Tail(b), d, cur % d)

\* a / d truncating, for 0 < d < 2^23
BigDiv(a, d) == FromBytesBE(DivBytes(BytesBE(a), d, 0))

\* 2^k as a Big, 0 <= k <= 63
BigPow2(k) == [i \in 1..4 |-> IF i = (k \div 16) + 1 THEN 2^(k % 16) ELSE 0]

\* a / b truncating, for a Big divisor of the form d * 2^16 or d with 0 < d < 2^23
\* (every divisor of the source is: MB, 64 * MB, 2 * GB)
BigDivBig(a, b) ==
    IF b[1] = 0
    THEN BigDiv(<<a[2], a[3], a[4], 0>>, Small(<<b[2], b[3], 0, 0>>))
    ELSE BigDiv(a, Small(b))

----------------------------------------------------------------------------
(* Constants of the source file and of the modules it imports.             *)

KB == 1024
MB == KB * 1024
GB == MB * 1024

\* dir_entry::DIR_ENTRY_SIZE
DIR_ENTRY_SIZE == 32

\* table::RESERVED_FAT_ENTRIES
RESERVED_FAT_ENTRIES == 2

FatTypes == {"Fat12", "Fat16", "Fat32"}

\* fs::FatType::from_clusters
from_clusters(total_clusters) ==
    IF BigLess(total_clusters, N(4085)) THEN "Fat12"
    ELSE IF BigLess(total_clusters, N(65525)) THEN "Fat16"
    ELSE "Fat32"

\* fs::FatType::bits_per_fat_entry
bits_per_fat_entry(ft) ==
    CASE ft = "Fat12" -> 12
      [] ft = "Fat16" -> 16
      [] ft = "Fat32" -> 32

----------------------------------------------------------------------------
(* Byte strings and the little-endian integer codec (byteorder).           *)

Bytes(n, v) == [i \in 1..n |-> v]

\* rdr.read_u8(), read_u16::<LittleEndian>(), read_u32::<LittleEndian>(), read_exact
\* at cursor p (bytes already consumed) of the byte string m
ReadU8(m, p) == m[p + 1]
ReadU16(m, p) == m[p + 1] + 256 * m[p + 2]
ReadU32(m, p) == Big32(m[p + 1] + 256 * m[p + 2], m[p + 3] + 256 * m[p + 4])
ReadExact(m, p, n) == SubSeq(m, p + 1, p + n)

\* wrt.write_u8, write_u16::<LittleEndian>, write_u32::<LittleEndian>, write_all
WriteU8(x) == <<x>>
\* a write_u16 that stores the high byte first
WriteU16BigEndian(x) == <<x \div 256, x % 256>>

WriteU16(x) == <<x % 256, x \div 256>>
WriteU32(a) == <<a[1] % 256, a[1] \div 256, a[2] % 256, a[2] \div 256>>
WriteAll(b) == b

Read(kind, m, p, n) ==
    CASE kind = "u8" -> ReadU8(m, p)
      [] kind = "u16" -> ReadU16(m, p)
      [] kind = "u32" -> ReadU32(m, p)
      [] kind = "bytes" -> ReadExact(m, p, n)

Write(kind, x) ==
    CASE kind = "u8" -> WriteU8(x)
      [] kind = "u16" -> WriteU16(x)
      [] kind = "u32" -> WriteU32(x)
      [] kind = "bytes" -> WriteAll(x)

----------------------------------------------------------------------------
(* BiosParameterBlock: the fields in the order the codec reads and writes  *)
(* them, each with its kind and its width in bytes.                        *)

CommonFields ==
    << <<"bytes_per_sector", "u16", 2>>,
       <<"sectors_per_cluster", "u8", 1>>,
       <<"reserved_sectors", "u16", 2>>,
       <<"fats", "u8", 1>>,
       <<"root_entries", "u16", 2>>,
       <<"total_sectors_16", "u16", 2>>,
       <<"media", "u8", 1>>,
       <<"sectors_per_fat_16", "u16", 2>>,
       <<"sectors_per_track", "u16", 2>>,
       <<"heads", "u16", 2>>,
       <<"hidden_sectors", "u32", 4>>,
       <<"total_sectors_32", "u32", 4>> >>

Fat32Fields ==
    << <<"sectors_per_fat_32", "u32", 4>>,
       <<"extended_flags", "u16", 2>>,
       <<"fs_version", "u16", 2>>,
       <<"root_dir_first_cluster", "u32", 4>>,
       <<"fs_info_sector", "u16", 2>>,
       <<"backup_boot_sector", "u16", 2>>,
       <<"reserved_0", "bytes", 12>> >>

TailFields ==
    << <<"drive_num", "u8", 1>>,
       <<"reserved_1", "u8", 1>>,
       <<"ext_sig", "u8", 1>>,
       <<"volume_id", "u32", 4>>,
       <<"volume_label", "bytes", 11>>,
       <<"fs_type_label", "bytes", 8>> >>

AllFields == CommonFields \o Fat32Fields \o TailFields

FieldNames == {AllFields[i][1] : i \in 1..Len(AllFields)}

\* Default::default() of a field of the given kind
DefaultOf(kind, n) ==
    CASE kind = "u8" -> 0
      [] kind = "u16" -> 0
      [] kind = "u32" -> Zero
      [] kind = "bytes" -> Bytes(n, 0)

\* #[derive(Default)] BiosParameterBlock
DefaultBpb ==
    [f \in FieldNames |->
        LET i == CHOOSE k \in 1..Len(AllFields) : AllFields[k][1] = f
        IN  DefaultOf(AllFields[i][2], AllFields[i][3])]

\* bytes taken by the first k fields of a field list
RECURSIVE WidthOf(_, _)
WidthOf(fields, k) == IF k = 0 THEN 0 ELSE WidthOf(fields, k - 1) + fields[k][3]

\* bpb with the fields of the list read in order from m, starting at cursor p
ReadFields(bpb, fields, m, p) ==
    [f \in FieldNames |->
        IF \E k \in 1..Len(fields) : fields[k][1] = f
        THEN LET k == CHOOSE j \in 1..Len(fields) : fields[j][1] = f
             IN  Read(fields[k][2], m, p + WidthOf(fields, k - 1), fields[k][3])
        ELSE bpb[f]]

\* the fields of the list written in order
RECURSIVE WriteFields(_, _, _)
WriteFields(bpb, fields, k) ==
    IF k > Len(fields) THEN <<>>
    ELSE Write(fields[k][2], bpb[fields[k][1]]) \o WriteFields(bpb, fields, k + 1)

\* BiosParameterBlock::is_fat32
is_fat32(bpb) == bpb.sectors_per_fat_16 = 0

\* the fields that follow the common header, by variant
RestFields(bpb) == IF is_fat32(bpb) THEN Fat32Fields \o TailFields ELSE TailFields

\* bytes BiosParameterBlock::deserialize consumes / serialize produces
BpbLen(bpb) ==
    WidthOf(CommonFields, Len(CommonFields)) + WidthOf(RestFields(bpb), Len(RestFields(bpb)))

\* BiosParameterBlock::deserialize, reading from cursor p of m
BpbDeserialize(m, p) ==
    LET common == ReadFields(DefaultBpb, CommonFields, m, p)
        all == ReadFields(common, RestFields(common), m,
                          p + WidthOf(CommonFields, Len(CommonFields)))
    IN  IF all.ext_sig # 41
        THEN [all EXCEPT !.volume_id = Zero,
                         !.volume_label = Bytes(11, 0),
                         !.fs_type_label = Bytes(8, 0)]
        ELSE all

\* BiosParameterBlock::serialize
BpbSerialize(bpb) ==
    WriteFields(bpb, CommonFields, 1) \o WriteFields(bpb, RestFields(bpb), 1)

----------------------------------------------------------------------------
(* BootSector codec.                                                       *)

\* impl Default for BootSector
DefaultBootSector ==
    [bootjmp |-> Bytes(3, 0), oem_name |-> Bytes(8, 0), bpb |-> DefaultBpb,
     boot_code |-> Bytes(448, 0), boot_sig |-> Bytes(2, 0)]

\* length of the boot code region on the medium
\* a boot code area of 420 bytes in both forms
BootCodeLenFat32(bpb) == 420

BootCodeLen(bpb) == IF is_fat32(bpb) THEN 420 ELSE 448

\* the element of a singleton set
The(S) == CHOOSE x \in S : TRUE

\* BootSector::deserialize
BootSectorDeserialize(m) ==
    The({ [bootjmp |-> ReadExact(m, 0, 3),
           oem_name |-> ReadExact(m, 3, 8),
           bpb |-> bpb,
           boot_code |-> [i \in 1..448 |->
                            IF i <= BootCodeLen(bpb) THEN m[11 + BpbLen(bpb) + i] ELSE 0],
           boot_sig |-> ReadExact(m, 11 + BpbLen(bpb) + BootCodeLen(bpb), 2)]
          : bpb \in {BpbDeserialize(m, 11)} })

\* BootSector::serialize
BootSectorSerialize(b) ==
    WriteAll(b.bootjmp) \o WriteAll(b.oem_name) \o BpbSerialize(b.bpb)
        \o WriteAll(SubSeq(b.boot_code, 1, BootCodeLen(b.bpb))) \o WriteAll(b.boot_sig)

----------------------------------------------------------------------------
(* Geometry accessors.  Each u32 accessor gives the value the arithmetic   *)
(* yields when it wraps (overflow checks off); its companion ..._overflows *)
(* tells whether some step left the u32 range, which panics when overflow  *)
(* checks are on.                                                          *)

\* BiosParameterBlock::sectors_per_fat
sectors_per_fat(bpb) ==
    IF is_fat32(bpb) THEN bpb.sectors_per_fat_32 ELSE N(bpb.sectors_per_fat_16)

\* BiosParameterBlock::total_sectors
total_sectors(bpb) ==
    IF bpb.total_sectors_16 = 0 THEN bpb.total_sectors_32 ELSE N(bpb.total_sectors_16)

\* BiosParameterBlock::reserved_sectors
reserved_sectors(bpb) == N(bpb.reserved_sectors)

\* BiosParameterBlock::root_dir_sectors (u16 * 32 + u16 cannot leave u32);
\* divides by bytes_per_sector, which the callers have found non-zero
root_dir_sectors(bpb) ==
    LET root_dir_bytes == bpb.root_entries * DIR_ENTRY_SIZE
    IN  (root_dir_bytes + bpb.bytes_per_sector - 1) \div bpb.bytes_per_sector

\* BiosParameterBlock::sectors_per_all_fats
sectors_per_all_fats(bpb) == Low32(BigMul(sectors_per_fat(bpb), bpb.fats))

sectors_per_all_fats_overflows(bpb) == ~IsU32(BigMul(sectors_per_fat(bpb), bpb.fats))

\* BiosParameterBlock::first_data_sector
first_data_sector(bpb) ==
    LET root_dir_sectors_ == N(root_dir_sectors(bpb))
        fat_sectors == sectors_per_all_fats(bpb)
    IN  Low32(BigAdd(Low32(BigAdd(reserved_sectors(bpb), fat_sectors)), root_dir_sectors_))

first_data_sector_overflows(bpb) ==
    LET root_dir_sectors_ == N(root_dir_sectors(bpb))
        fat_sectors == sectors_per_all_fats(bpb)
    IN  \/ sectors_per_all_fats_overflows(bpb)
        \/ ~IsU32(BigAdd(reserved_sectors(bpb), fat_sectors))
        \/ ~IsU32(BigAdd(Low32(BigAdd(reserved_sectors(bpb), fat_sectors)), root_dir_sectors_))

\* BiosParameterBlock::total_clusters; divides by sectors_per_cluster, which the
\* callers have found non-zero
total_clusters(bpb) ==
    LET total_sectors_ == total_sectors(bpb)
        first_data_sector_ == first_data_sector(bpb)
        data_sectors == Low32(BigSub(total_sectors_, first_data_sector_))
    IN  BigDiv(data_sectors, bpb.sectors_per_cluster)

total_clusters_overflows(bpb) ==
    \/ first_data_sector_overflows(bpb)
    \/ BigLess(total_sectors(bpb), first_data_sector(bpb))

\* BiosParameterBlock::cluster_size
cluster_size(bpb) == bpb.sectors_per_cluster * bpb.bytes_per_sector

----------------------------------------------------------------------------
(* Validation.  A result is "Ok", the message of the io::Error returned,   *)
(* or the message of a panic.                                              *)

Ok == "Ok"

PanicMul == "panic: attempt to multiply with overflow"
PanicAdd == "panic: attempt to add with overflow"
PanicSub == "panic: attempt to subtract with overflow"
PanicDivZero == "panic: attempt to divide by zero"
PanicAssert == "panic: assertion failed: bytes_per_cluster.is_power_of_two()"

Panics == {PanicMul, PanicAdd, PanicSub, PanicDivZero, PanicAssert}

ErrBpsPow2 == "invalid bytes_per_sector value in BPB (not power of two)"
ErrBpsSmall == "invalid bytes_per_sector value in BPB (value < 512)"
ErrBpsLarge == "invalid bytes_per_sector value in BPB (value > 4096)"
ErrSpcPow2 == "invalid sectors_per_cluster value in BPB (not power of two)"
ErrSpcSmall == "invalid sectors_per_cluster value in BPB (value < 1)"
ErrSpcLarge == "invalid sectors_per_cluster value in BPB (value > 128)"
ErrReserved == "invalid reserved_sectors value in BPB"
ErrFats == "invalid fats value in BPB"
ErrRootEntries == "Invalid root_entries value in BPB (should be zero for FAT32)"
ErrTotal16 == "Invalid total_sectors_16 value in BPB (should be zero for FAT32)"
ErrTotalXor == "Invalid BPB (total_sectors_16 or total_sectors_32 should be non-zero)"
ErrSpf32 == "Invalid sectors_per_fat_32 value in BPB (should be non-zero for FAT32)"
ErrFsVersion == "Unknown FS version"
ErrTooSmall == "Invalid BPB (total_sectors field value is too small)"
ErrFatType == "Invalid BPB (result of FAT32 determination from total number of clusters and sectors_per_fat_16 field differs)"
ErrSignature == "Invalid boot sector signature"
ErrVolumeTooSmall == "Volume is too small"
ErrFormatFatType == "Total number of clusters and FAT type does not match. Try other volume size"

\* u16::count_ones / u8::count_ones / u32::count_ones, for x < 2^31
RECURSIVE count_ones(_)
count_ones(x) == IF x = 0 THEN 0 ELSE (x % 2) + count_ones(x \div 2)

\* the FAT size check at the end of validate: sectors_per_fat * bytes_per_sector * 8
total_fat_entries_product(bpb) ==
    Low32(BigMul(Low32(BigMul(sectors_per_fat(bpb), bpb.bytes_per_sector)), 8))

total_fat_entries_overflows(bpb) ==
    \/ ~IsU32(BigMul(sectors_per_fat(bpb), bpb.bytes_per_sector))
    \/ ~IsU32(BigMul(Low32(BigMul(sectors_per_fat(bpb), bpb.bytes_per_sector)), 8))

total_fat_entries(bpb, ft) == BigDiv(total_fat_entries_product(bpb), bits_per_fat_entry(ft))

\* the warn! calls of BiosParameterBlock::validate that are reached when the
\* checks up to and including the one numbered `upto` have passed
BpbWarnings(bpb, upto) ==
    (IF upto >= 2 /\ bpb.bytes_per_sector * bpb.sectors_per_cluster > 32 * 1024
        THEN {"bytes_per_cluster"} ELSE {})
    \cup (IF upto >= 3 /\ ~is_fat32(bpb) /\ bpb.reserved_sectors # 1
        THEN {"reserved_sectors"} ELSE {})
    \cup (IF upto >= 4 /\ bpb.fats > 2 THEN {"fats"} ELSE {})
    \cup (IF upto >= 12
             /\ BigLess(Low32(BigSub(total_fat_entries(bpb, from_clusters(total_clusters(bpb))),
                                     N(RESERVED_FAT_ENTRIES))),
                        total_clusters(bpb))
        THEN {"fat_too_small"} ELSE {})

Outcome(res, warns) == [result |-> res, warnings |-> warns]

\* a validate that ends without comparing the declared layout with the
\* FAT type of the cluster count
ValidateGeometryNoTypeCheck(bpb, dbg) ==
    IF dbg /\ sectors_per_all_fats_overflows(bpb) THEN Outcome(PanicMul, BpbWarnings(bpb, 9))
    ELSE IF dbg /\ first_data_sector_overflows(bpb) THEN Outcome(PanicAdd, BpbWarnings(bpb, 9))
    ELSE IF BigLeq(total_sectors(bpb), first_data_sector(bpb))
        THEN Outcome(ErrTooSmall, BpbWarnings(bpb, 9))
    ELSE Outcome(Ok, BpbWarnings(bpb, 10))

\* BiosParameterBlock::validate, from the total_sectors check to the end
ValidateGeometry(bpb, dbg) ==
    IF dbg /\ sectors_per_all_fats_overflows(bpb) THEN Outcome(PanicMul, BpbWarnings(bpb, 9))
    ELSE IF dbg /\ first_data_sector_overflows(bpb) THEN Outcome(PanicAdd, BpbWarnings(bpb, 9))
    ELSE IF BigLeq(total_sectors(bpb), first_data_sector(bpb))
        THEN Outcome(ErrTooSmall, BpbWarnings(bpb, 9))
    ELSE IF is_fat32(bpb) # (from_clusters(total_clusters(bpb)) = "Fat32")
        THEN Outcome(ErrFatType, BpbWarnings(bpb, 10))
    ELSE IF dbg /\ total_fat_entries_overflows(bpb) THEN Outcome(PanicMul, BpbWarnings(bpb, 11))
    ELSE IF dbg /\ BigLess(total_fat_entries(bpb, from_clusters(total_clusters(bpb))),
                           N(RESERVED_FAT_ENTRIES))
        THEN Outcome(PanicSub, BpbWarnings(bpb, 11))
    ELSE Outcome(Ok, BpbWarnings(bpb, 12))

\* BiosParameterBlock::validate, the checks of the FAT32 fields, of the total
\* sector fields and of the version, then the rest
ValidateLayout(bpb, dbg) ==
    IF is_fat32(bpb) /\ bpb.root_entries # 0 THEN Outcome(ErrRootEntries, BpbWarnings(bpb, 4))
    ELSE IF is_fat32(bpb) /\ bpb.total_sectors_16 # 0 THEN Outcome(ErrTotal16, BpbWarnings(bpb, 5))
    ELSE IF (bpb.total_sectors_16 = 0) = (bpb.total_sectors_32 = Zero)
        THEN Outcome(ErrTotalXor, BpbWarnings(bpb, 6))
    ELSE IF is_fat32(bpb) /\ bpb.sectors_per_fat_32 = Zero THEN Outcome(ErrSpf32, BpbWarnings(bpb, 7))
    ELSE IF bpb.fs_version # 0 THEN Outcome(ErrFsVersion, BpbWarnings(bpb, 8))
    ELSE ValidateGeometry(bpb, dbg)

\* a validate that checks fats before reserved_sectors
ValidateCountsFatsFirst(bpb, dbg) ==
    IF bpb.fats = 0 THEN Outcome(ErrFats, BpbWarnings(bpb, 3))
    ELSE IF bpb.reserved_sectors < 1 THEN Outcome(ErrReserved, BpbWarnings(bpb, 2))
    ELSE ValidateLayout(bpb, dbg)

\* BiosParameterBlock::validate, the checks of reserved_sectors and fats, then the rest
ValidateCounts(bpb, dbg) ==
    IF bpb.reserved_sectors < 1 THEN Outcome(ErrReserved, BpbWarnings(bpb, 2))
    ELSE IF bpb.fats = 0 THEN Outcome(ErrFats, BpbWarnings(bpb, 3))
    ELSE ValidateLayout(bpb, dbg)

\* a validate without the upper bound on bytes_per_sector
BpbValidateNoUpperBound(bpb, dbg) ==
    IF count_ones(bpb.bytes_per_sector) # 1 THEN Outcome(ErrBpsPow2, {})
    ELSE IF bpb.bytes_per_sector < 512 THEN Outcome(ErrBpsSmall, {})
    ELSE IF count_ones(bpb.sectors_per_cluster) # 1 THEN Outcome(ErrSpcPow2, BpbWarnings(bpb, 1))
    ELSE IF bpb.sectors_per_cluster < 1 THEN Outcome(ErrSpcSmall, BpbWarnings(bpb, 1))
    ELSE IF bpb.sectors_per_cluster > 128 THEN Outcome(ErrSpcLarge, BpbWarnings(bpb, 1))
    ELSE ValidateCounts(bpb, dbg)

\* BiosParameterBlock::validate in a build with (dbg) or without overflow checks
BpbValidate(bpb, dbg) ==
    IF count_ones(bpb.bytes_per_sector) # 1 THEN Outcome(ErrBpsPow2, {})
    ELSE IF bpb.bytes_per_sector < 512 THEN Outcome(ErrBpsSmall, {})
    ELSE IF bpb.bytes_per_sector > 4096 THEN Outcome(ErrBpsLarge, {})
    ELSE IF count_ones(bpb.sectors_per_cluster) # 1 THEN Outcome(ErrSpcPow2, BpbWarnings(bpb, 1))
    ELSE IF bpb.sectors_per_cluster < 1 THEN Outcome(ErrSpcSmall, BpbWarnings(bpb, 1))
    ELSE IF bpb.sectors_per_cluster > 128 THEN Outcome(ErrSpcLarge, BpbWarnings(bpb, 1))
    ELSE ValidateCounts(bpb, dbg)

\* a validate that rejects a boot sector whose first byte is not a jump opcode
BootSectorValidateStrictJump(b, dbg) ==
    IF b.boot_sig # <<85, 170>> THEN Outcome(ErrSignature, {})
    ELSE IF b.bootjmp[1] # 235 /\ b.bootjmp[1] # 233
        THEN Outcome("Unknown opcode in bootjmp", {})
    ELSE BpbValidate(b.bpb, dbg)

\* BootSector::validate
BootSectorValidate(b, dbg) ==
    IF b.boot_sig # <<85, 170>> THEN Outcome(ErrSignature, {})
    ELSE LET jmp == IF b.bootjmp[1] # 235 /\ b.bootjmp[1] # 233 THEN {"bootjmp"} ELSE {}
             r == BpbValidate(b.bpb, dbg)
         IN  Outcome(r.result, jmp \cup r.warnings)

----------------------------------------------------------------------------
(* Formatting engine.                                                      *)

\* Option<T>
None == <<>>
Some(x) == <<x>>
unwrap_or(opt, dflt) == IF opt = None THEN dflt ELSE opt[1]

\* a determine_fat_type whose boundary values belong to the lower bracket
determine_fat_type_inclusive(total_bytes) ==
    IF BigLeq(total_bytes, N(4 * MB)) THEN "Fat12"
    ELSE IF BigLeq(total_bytes, N(512 * MB)) THEN "Fat16"
    ELSE "Fat32"

\* determine_fat_type
determine_fat_type(total_bytes) ==
    IF BigLess(total_bytes, N(4 * MB)) THEN "Fat12"
    ELSE IF BigLess(total_bytes, N(512 * MB)) THEN "Fat16"
    ELSE "Fat32"

\* u64::next_power_of_two where the result fits 64 bits; 0 (wrapping) otherwise
next_power_of_two(a) ==
    IF \E k \in 0..63 : BigLeq(a, BigPow2(k))
    THEN BigPow2(CHOOSE k \in 0..63 :
                    /\ BigLeq(a, BigPow2(k))
                    /\ \A j \in 0..63 : BigLeq(a, BigPow2(j)) => k <= j)
    ELSE Zero

next_power_of_two_overflows(a) == BigLess(BigPow2(63), a)

\* u32::is_power_of_two
is_power_of_two(a) == \E k \in 0..31 : a = BigPow2(k)

BigMin(a, b) == IF BigLess(b, a) THEN b ELSE a
BigMax(a, b) == IF BigLess(a, b) THEN b ELSE a

\* determine_bytes_per_cluster: the value of the match expression, before the
\* assertion and the clamp
bytes_per_cluster_unclamped(total_bytes, ft) ==
    CASE ft = "Fat12" ->
            Low32(BigMul(BigDivBig(next_power_of_two(total_bytes), N(MB)), 512))
      [] ft = "Fat16" ->
            IF BigLeq(total_bytes, N(16 * MB)) THEN N(1 * KB)
            ELSE IF BigLeq(total_bytes, N(128 * MB)) THEN N(2 * KB)
            ELSE Low32(BigMul(BigDivBig(next_power_of_two(total_bytes), N(64 * MB)), KB))
      [] ft = "Fat32" ->
            IF BigLeq(total_bytes, N(260 * MB)) THEN N(512)
            ELSE IF BigLeq(total_bytes, BigMul(N(GB), 8)) THEN N(4 * KB)
            ELSE Low32(BigMul(BigDivBig(next_power_of_two(total_bytes), BigMul(N(GB), 2)), KB))

MAX_CLUSTER_SIZE == 32 * KB

\* determine_bytes_per_cluster: [panic |-> message or Ok, value |-> u32]
determine_bytes_per_cluster(total_bytes, ft, bytes_per_sector, dbg) ==
    LET bytes_per_cluster == bytes_per_cluster_unclamped(total_bytes, ft)
        uses_next_power_of_two ==
            \/ ft = "Fat12"
            \/ ft = "Fat16" /\ BigLess(N(128 * MB), total_bytes)
            \/ ft = "Fat32" /\ BigLess(BigMul(N(GB), 8), total_bytes)
    IN  IF dbg /\ uses_next_power_of_two /\ next_power_of_two_overflows(total_bytes)
        THEN [panic |-> PanicAdd, value |-> Zero]
        ELSE IF dbg /\ ~is_power_of_two(bytes_per_cluster)
        THEN [panic |-> PanicAssert, value |-> Zero]
        ELSE [panic |-> Ok,
              value |-> BigMin(BigMax(bytes_per_cluster, N(bytes_per_sector)),
                               N(MAX_CLUSTER_SIZE))]

\* tmp_val2 of determine_sectors_per_fat
sectors_per_fat_divisor(fats, sectors_per_cluster, ft) ==
    LET tmp_val2 == (256 * sectors_per_cluster) + fats
    IN  IF ft = "Fat32" THEN tmp_val2 \div 2
        ELSE IF ft = "Fat12" THEN (tmp_val2 \div 3) * 4
        ELSE tmp_val2

\* determine_sectors_per_fat: [panic |-> message or Ok, value |-> u32]
determine_sectors_per_fat(total_sectors_, reserved_sectors_, fats, root_dir_sectors_, sectors_per_cluster, ft, dbg) ==
    LET head == N(reserved_sectors_ + root_dir_sectors_)
        tmp_val1 == Low32(BigSub(total_sectors_, head))
        tmp_val2 == sectors_per_fat_divisor(fats, sectors_per_cluster, ft)
        sum == BigAdd(tmp_val1, N(tmp_val2 - 1))
    IN  IF dbg /\ BigLess(total_sectors_, head) THEN [panic |-> PanicSub, value |-> Zero]
        ELSE IF tmp_val2 = 0
            THEN [panic |-> IF dbg THEN PanicSub ELSE PanicDivZero, value |-> Zero]
        ELSE IF dbg /\ ~IsU32(sum) THEN [panic |-> PanicAdd, value |-> Zero]
        ELSE [panic |-> Ok, value |-> BigDiv(Low32(sum), tmp_val2)]

NoName == <<78, 79, 32, 78, 65, 77, 69, 32, 32, 32, 32>>

\* b"FAT12   ", b"FAT16   ", b"FAT32   "
FsTypeLabel(ft) ==
    CASE ft = "Fat12" -> <<70, 65, 84, 49, 50, 32, 32, 32>>
      [] ft = "Fat16" -> <<70, 65, 84, 49, 54, 32, 32, 32>>
      [] ft = "Fat32" -> <<70, 65, 84, 51, 50, 32, 32, 32>>

FormatFailure(res) == [result |-> res, bpb |-> DefaultBpb, fat_type |-> "Fat12"]

\* the BiosParameterBlock literal of format_bpb
FormatBpbRecord(opts, ft, sectors_per_cluster, reserved_sectors_, fats, root_entries, sectors_per_fat_) ==
    LET is_fat32_ == ft = "Fat32"
        total_sectors_ == opts.total_sectors
    IN  [bytes_per_sector |-> opts.bytes_per_sector,
         sectors_per_cluster |-> sectors_per_cluster,
         reserved_sectors |-> reserved_sectors_,
         fats |-> fats,
         root_entries |-> root_entries,
         total_sectors_16 |-> IF BigLess(total_sectors_, N(65536)) THEN total_sectors_[1] ELSE 0,
         media |-> unwrap_or(opts.media, 248),
         sectors_per_fat_16 |-> IF is_fat32_ THEN 0 ELSE sectors_per_fat_[1],
         sectors_per_track |-> unwrap_or(opts.sectors_per_track, 32),
         heads |-> unwrap_or(opts.heads, 64),
         hidden_sectors |-> Zero,
         total_sectors_32 |-> IF ~BigLess(total_sectors_, N(65536)) THEN total_sectors_ ELSE Zero,
         sectors_per_fat_32 |-> IF is_fat32_ THEN sectors_per_fat_ ELSE Zero,
         extended_flags |-> 0,
         fs_version |-> 0,
         root_dir_first_cluster |-> IF is_fat32_ THEN N(2) ELSE Zero,
         fs_info_sector |-> IF is_fat32_ THEN 1 ELSE 0,
         backup_boot_sector |-> IF is_fat32_ THEN 6 ELSE 0,
         reserved_0 |-> Bytes(12, 0),
         drive_num |-> unwrap_or(opts.drive_num, IF ft = "Fat12" THEN 0 ELSE 128),
         reserved_1 |-> 0,
         ext_sig |-> 41,
         volume_id |-> unwrap_or(opts.volume_id, Big32(22136, 4660)),
         volume_label |-> unwrap_or(opts.volume_label, NoName),
         fs_type_label |-> FsTypeLabel(ft)]

\* the volume-size check of format_bpb
VolumeTooSmall(total_sectors_, reserved_sectors_, root_dir_sectors_) ==
    BigLeq(total_sectors_, N(reserved_sectors_ + root_dir_sectors_ + 8))

\* a format_bpb that returns the BPB without classifying its cluster count
FormatCheckSkipped(bpb, ft, dbg) ==
    IF dbg /\ sectors_per_all_fats_overflows(bpb) THEN PanicMul
    ELSE IF dbg /\ first_data_sector_overflows(bpb) THEN PanicAdd
    ELSE IF dbg /\ total_clusters_overflows(bpb) THEN PanicSub
    ELSE IF bpb.sectors_per_cluster = 0 THEN PanicDivZero
    ELSE Ok

\* format_bpb, the check of the number of clusters against the FAT type
FormatCheck(bpb, ft, dbg) ==
    IF dbg /\ sectors_per_all_fats_overflows(bpb) THEN PanicMul
    ELSE IF dbg /\ first_data_sector_overflows(bpb) THEN PanicAdd
    ELSE IF dbg /\ total_clusters_overflows(bpb) THEN PanicSub
    ELSE IF bpb.sectors_per_cluster = 0 THEN PanicDivZero
    ELSE IF from_clusters(total_clusters(bpb)) # ft THEN ErrFormatFatType
    ELSE Ok

\* format_bpb: [result |-> Ok, error or panic, bpb, fat_type]
format_bpb(opts, dbg) ==
    LET bytes_per_sector == opts.bytes_per_sector
        total_sectors_ == opts.total_sectors
        total_bytes == BigMul(total_sectors_, bytes_per_sector)
        ft == unwrap_or(opts.fat_type, determine_fat_type(total_bytes))
        auto == determine_bytes_per_cluster(total_bytes, ft, bytes_per_sector, dbg)
        bytes_per_cluster == unwrap_or(opts.bytes_per_cluster, auto.value)
        sectors_per_cluster == BigDiv(bytes_per_cluster, bytes_per_sector)[1] % 256
        reserved_sectors_ == IF ft = "Fat32" THEN 4 ELSE 1
        fats == 2
        is_fat32_ == ft = "Fat32"
        root_entries == IF is_fat32_ THEN 0 ELSE unwrap_or(opts.root_entries, 512)
        root_dir_bytes == root_entries * DIR_ENTRY_SIZE
        root_dir_sectors_ == (root_dir_bytes + bytes_per_sector - 1) \div bytes_per_sector
        spf == determine_sectors_per_fat(total_sectors_, reserved_sectors_, fats,
                                         root_dir_sectors_, sectors_per_cluster, ft, dbg)
        bpb == FormatBpbRecord(opts, ft, sectors_per_cluster, reserved_sectors_, fats,
                               root_entries, spf.value)
    IN  IF opts.bytes_per_cluster = None /\ auto.panic # Ok THEN FormatFailure(auto.panic)
        ELSE IF bytes_per_sector = 0 THEN FormatFailure(PanicDivZero)
        ELSE IF VolumeTooSmall(total_sectors_, reserved_sectors_, root_dir_sectors_)
            THEN FormatFailure(ErrVolumeTooSmall)
        ELSE IF spf.panic # Ok THEN FormatFailure(spf.panic)
        ELSE IF FormatCheck(bpb, ft, dbg) # Ok THEN FormatFailure(FormatCheck(bpb, ft, dbg))
        ELSE [result |-> Ok, bpb |-> bpb, fat_type |-> ft]

OemName == <<77, 83, 87, 73, 78, 52, 46, 49>>

\* the 129 bytes of boot code of format_boot_sector
BootCode ==
    <<14, 31, 190, 119, 124, 172, 34, 192, 116, 11, 86, 180, 14, 187, 7, 0,
      205, 16, 94, 235, 240, 50, 228, 205, 22, 205, 25, 235, 254, 84, 104, 105,
      115, 32, 105, 115, 32, 110, 111, 116, 32, 97, 32, 98, 111, 111, 116, 97,
      98, 108, 101, 32, 100, 105, 115, 107, 46, 32, 32, 80, 108, 101, 97, 115,
      101, 32, 105, 110, 115, 101, 114, 116, 32, 97, 32, 98, 111, 111, 116, 97,
      98, 108, 101, 32, 102, 108, 111, 112, 112, 121, 32, 97, 110, 100, 13, 10,
      112, 114, 101, 115, 115, 32, 97, 110, 121, 32, 107, 101, 121, 32, 116, 111,
      32, 116, 114, 121, 32, 97, 103, 97, 105, 110, 32, 46, 46, 46, 32, 13,
      10>>

\* format_boot_sector: [result, boot, fat_type]
format_boot_sector(opts, dbg) ==
    LET boot_code_offset == 54 + 8
        MESSAGE_OFFSET == 29
        message_offset_in_sector == boot_code_offset + MESSAGE_OFFSET + 31744
    IN  The({ IF r.result # Ok
              THEN [result |-> r.result, boot |-> DefaultBootSector, fat_type |-> r.fat_type]
              ELSE [result |-> Ok,
                    fat_type |-> r.fat_type,
                    boot |->
                      [bootjmp |-> <<235,
                                     IF r.fat_type # "Fat32"
                                        THEN (boot_code_offset - 2) % 256 ELSE 88,
                                     144>>,
                       oem_name |-> OemName,
                       bpb |-> r.bpb,
                       boot_code |->
                          [i \in 1..448 |->
                              IF r.fat_type # "Fat32" /\ i = 4
                                 THEN message_offset_in_sector % 256
                              ELSE IF r.fat_type # "Fat32" /\ i = 5
                                 THEN (message_offset_in_sector \div 256) % 256
                              ELSE IF i <= Len(BootCode) THEN BootCode[i]
                              ELSE 0],
                       boot_sig |-> <<85, 170>>]]
            : r \in {format_bpb(opts, dbg)} })

----------------------------------------------------------------------------
(* Inputs.  A medium is a 512-byte first sector: a position-dependent      *)
(* filler overlaid, at the on-disk offsets of the FAT layout, with the     *)
(* fields of a volume profile.  The profiles are well-formed volumes with  *)
(* up to MaxFaults fields replaced by other values.                        *)

MaxFaults == 2

MaxDelta == 1

Le16(x) == <<x % 256, x \div 256>>
Le32(a) == Le16(a[1]) \o Le16(a[2])

\* byte at offset off of the first sector of a volume with profile f
ImageByte(f, off) ==
    LET ext == f.sectors_per_fat_16 = 0
    IN  CASE off = 0 -> f.jmp0
          [] off \in 11..12 -> Le16(f.bytes_per_sector)[off - 10]
          [] off = 13 -> f.sectors_per_cluster
          [] off \in 14..15 -> Le16(f.reserved_sectors)[off - 13]
          [] off = 16 -> f.fats
          [] off \in 17..18 -> Le16(f.root_entries)[off - 16]
          [] off \in 19..20 -> Le16(f.total_sectors_16)[off - 18]
          [] off \in 22..23 -> Le16(f.sectors_per_fat_16)[off - 21]
          [] off \in 32..35 -> Le32(f.total_sectors_32)[off - 31]
          [] ext /\ off \in 36..39 -> Le32(f.sectors_per_fat_32)[off - 35]
          [] ext /\ off \in 42..43 -> Le16(f.fs_version)[off - 41]
          [] ext /\ off = 66 -> f.ext_sig
          [] ~ext /\ off = 38 -> f.ext_sig
          [] off \in 510..511 -> f.boot_sig[off - 509]
          [] OTHER -> (off * 7 + 10) % 256

SectorImage(f) == [i \in 1..512 |-> ImageByte(f, i - 1)]

Fat12Floppy ==
    [jmp0 |-> 235, bytes_per_sector |-> 512, sectors_per_cluster |-> 1, reserved_sectors |-> 1,
     fats |-> 2, root_entries |-> 224, total_sectors_16 |-> 2880, sectors_per_fat_16 |-> 9,
     total_sectors_32 |-> Zero, sectors_per_fat_32 |-> Zero, fs_version |-> 0,
     ext_sig |-> 41, boot_sig |-> <<85, 170>>]

Fat16Disk ==
    [jmp0 |-> 235, bytes_per_sector |-> 512, sectors_per_cluster |-> 4, reserved_sectors |-> 1,
     fats |-> 2, root_entries |-> 512, total_sectors_16 |-> 0, sectors_per_fat_16 |-> 64,
     total_sectors_32 |-> N(65536), sectors_per_fat_32 |-> Zero, fs_version |-> 0,
     ext_sig |-> 41, boot_sig |-> <<85, 170>>]

Fat32Disk ==
    [jmp0 |-> 235, bytes_per_sector |-> 512, sectors_per_cluster |-> 1, reserved_sectors |-> 32,
     fats |-> 2, root_entries |-> 0, total_sectors_16 |-> 0, sectors_per_fat_16 |-> 0,
     total_sectors_32 |-> N(1000000), sectors_per_fat_32 |-> N(7700), fs_version |-> 0,
     ext_sig |-> 41, boot_sig |-> <<85, 170>>]

\* 1 TiB, 8 KiB clusters: the FAT has 2^27 entries in 2^20 sectors
Fat32Large ==
    [jmp0 |-> 235, bytes_per_sector |-> 512, sectors_per_cluster |-> 16, reserved_sectors |-> 32,
     fats |-> 2, root_entries |-> 0, total_sectors_16 |-> 0, sectors_per_fat_16 |-> 0,
     total_sectors_32 |-> BigPow2(31), sectors_per_fat_32 |-> BigPow2(20), fs_version |-> 0,
     ext_sig |-> 41, boot_sig |-> <<85, 170>>]

Profiles == {Fat12Floppy, Fat16Disk, Fat32Disk, Fat32Large}

\* the other values a field is given
Faults ==
    [jmp0 |-> {0},
     bytes_per_sector |-> {256, 513, 8192},
     sectors_per_cluster |-> {0, 128},
     reserved_sectors |-> {0, 2},
     fats |-> {0, 3, 255},
     root_entries |-> {16},
     total_sectors_16 |-> {0, 4000},
     sectors_per_fat_16 |-> {0, 9},
     total_sectors_32 |-> {Zero, N(70000)},
     sectors_per_fat_32 |-> {Zero, Big32(258, 257)},
     fs_version |-> {1},
     ext_sig |-> {0},
     boot_sig |-> {<<170, 85>>}]

FaultFields == DOMAIN Faults

\* the profiles with at most n fields replaced
RECURSIVE FaultedProfiles(_)
FaultedProfiles(n) ==
    IF n = 0 THEN Profiles
    ELSE LET prev == FaultedProfiles(n - 1)
         IN  prev \cup UNION { UNION { {[f EXCEPT ![k] = v] : v \in Faults[k]}
                                       : k \in FaultFields }
                               : f \in prev }

Media == {SectorImage(f) : f \in FaultedProfiles(MaxFaults)}

BlankMedium == Bytes(512, 0)

(* Volume sizes in sectors: the sizes within MaxDelta of a power of two,   *)
(* the sizes around the smallest volume format_bpb accepts, and the         *)
(* largest u32.                                                             *)
SectorCounts ==
    { N(2^k + d) : k \in 3..30, d \in (0 - MaxDelta)..MaxDelta }
        \cup { BigAdd(BigPow2(31), N(d)) : d \in 0..MaxDelta }
        \cup { BigSub(BigPow2(k), N(d)) : k \in 31..32, d \in 1..MaxDelta }
        \cup { N(n) : n \in 9..14 }
        \cup { N(n) : n \in 40..43 }

NoOptions == [bytes_per_sector |-> 0]

\* FormatVolumeOptions::new(total_sectors, bytes_per_sector) and its setters
OptionSets ==
    { [bytes_per_sector |-> bps,
       total_sectors |-> ts,
       bytes_per_cluster |-> bpc,
       fat_type |-> ft,
       root_entries |-> re,
       media |-> IF re # None THEN Some(240) ELSE None,
       sectors_per_track |-> IF re # None THEN Some(18) ELSE None,
       heads |-> IF re # None THEN Some(2) ELSE None,
       drive_num |-> IF re # None THEN Some(1) ELSE None,
       volume_id |-> IF re # None THEN Some(Big32(48879, 57005)) ELSE None,
       volume_label |-> IF re # None THEN Some(<<86, 79, 76, 32, 32, 32, 32, 32, 32, 32, 49>>) ELSE None]
      : bps \in {512, 4096},
        ts \in SectorCounts,
        bpc \in {None, Some(N(4096))},
        ft \in {None, Some("Fat12"), Some("Fat16"), Some("Fat32")},
        re \in {None, Some(16)} }

----------------------------------------------------------------------------
(* The life of a boot sector: it is built by format_boot_sector or read    *)
(* from the medium, validated, written to the medium and read back.        *)

NoQuery == [fat_type |-> "none"]

Init ==
    /\ debug \in BOOLEAN
    /\ \/ options \in OptionSets /\ medium = BlankMedium
       \/ options = NoOptions /\ medium \in Media
    /\ boot = DefaultBootSector
    /\ saved = DefaultBootSector
    /\ fat_type = "none"
    /\ result = "none"
    /\ warnings = {}
    /\ pc = "start"
    /\ q_in = NoQuery
    /\ q_out = N(0)

\* format_boot_sector(&options)
Format ==
    /\ pc = "start"
    /\ options # NoOptions
    /\ \E r \in {format_boot_sector(options, debug)} :
           /\ result' = r.result
           /\ IF r.result = Ok
              THEN boot' = r.boot /\ fat_type' = r.fat_type /\ pc' = "formatted"
              ELSE UNCHANGED <<boot, fat_type>> /\ pc' = "failed"
    /\ UNCHANGED <<debug, options, medium, saved, warnings, q_in, q_out>>

\* BootSector::deserialize(&mut medium)
Deserialize ==
    /\ \/ pc = "start" /\ options = NoOptions /\ pc' = "loaded"
       \/ pc = "written" /\ pc' = "reloaded"
    /\ boot' = BootSectorDeserialize(medium)
    /\ UNCHANGED <<debug, options, medium, saved, fat_type, result, warnings, q_in, q_out>>

\* boot.validate()
Validate ==
    /\ pc \in {"loaded", "formatted"}
    /\ \E o \in {BootSectorValidate(boot, debug)} :
           result' = o.result /\ warnings' = o.warnings
    /\ pc' = "validated"
    /\ UNCHANGED <<debug, options, medium, boot, saved, fat_type, q_in, q_out>>

\* boot.serialize(&mut medium)
Serialize ==
    /\ pc = "validated"
    /\ result \notin Panics
    /\ medium' = BootSectorSerialize(boot)
    /\ saved' = boot
    /\ pc' = "written"
    /\ UNCHANGED <<debug, options, boot, fat_type, result, warnings, q_in, q_out>>

Next == Format \/ Deserialize \/ Validate \/ Serialize

Spec == Init /\ [][Next]_vars


----------------------------------------------------------------------------
(* The sizing of clusters on its own: determine_bytes_per_cluster applied   *)
(* to a volume size, a FAT type and a sector size.                          *)

\* volume sizes in bytes: within MaxDelta of every power of two below 2^64,
\* around the 260 MiB threshold of FAT32, and the ends of the u64 range
SizeSamples ==
    { BigAdd(BigPow2(k), N(d)) : k \in 1..63, d \in 0..MaxDelta }
        \cup { BigSub(BigPow2(k), N(d)) : k \in 1..63, d \in 1..MaxDelta }
        \cup { BigAdd(N(260 * MB), N(d)) : d \in 0..MaxDelta }
        \cup { N(0), N(1), BigNot(Zero) }

Queries ==
    [total_bytes : SizeSamples, fat_type : FatTypes, bytes_per_sector : {512, 4096}]

SizingInit ==
    /\ debug \in BOOLEAN
    /\ q_in \in Queries
    /\ q_out = N(0)
    /\ options = NoOptions
    /\ medium = BlankMedium
    /\ boot = DefaultBootSector
    /\ saved = DefaultBootSector
    /\ fat_type = "none"
    /\ result = "none"
    /\ warnings = {}
    /\ pc = "query"

\* determine_bytes_per_cluster(total_bytes, fat_type, bytes_per_sector)
Size ==
    /\ pc = "query"
    /\ \E r \in {determine_bytes_per_cluster(q_in.total_bytes, q_in.fat_type,
                                             q_in.bytes_per_sector, debug)} :
           result' = r.panic /\ q_out' = r.value
    /\ pc' = "sized"
    /\ UNCHANGED <<debug, options, medium, boot, saved, fat_type, warnings, q_in>>

SizingNext == Size

SpecSizing == SizingInit /\ [][SizingNext]_vars

----------------------------------------------------------------------------
(* Properties of (de)serialization.                                         *)

\* C1: a boot sector built by deserialize or by format_boot_sector, in the
\* short form or in the FAT32 form, is written as 512 bytes from which
\* deserialize reads a boot sector equal to it in every field.
RoundTrip ==
    /\ pc \in {"written", "reloaded"} => Len(medium) = 512
    /\ pc = "reloaded" => boot = saved

\* a formatted FAT32 boot sector, with its extended fields set, was read back
RoundTripFat32Reached ==
    /\ pc = "reloaded"
    /\ options # NoOptions
    /\ is_fat32(saved.bpb)
    /\ saved.bpb.ext_sig = 41
    /\ saved.bpb.volume_id # Zero
    /\ saved.boot_code[1] # 0

\* a short-form boot sector read from a medium was written and read back
RoundTripShortReached ==
    /\ pc = "reloaded"
    /\ options = NoOptions
    /\ ~is_fat32(saved.bpb)
    /\ saved.bpb.bytes_per_sector = 512

----------------------------------------------------------------------------
(* Properties of validation.                                                *)

SigOk == boot.boot_sig = <<85, 170>>

Validated == pc = "validated"

JumpBytes == {0, 144, 233, 235, 255}

\* C2: with a wrong signature validate returns the invalid-signature error
\* whatever the rest holds; with the right one it returns what the BPB's
\* validate returns, and no first jump byte changes that.
SignatureFirst ==
    Validated =>
        IF ~SigOk THEN result = ErrSignature
        ELSE /\ result = BpbValidate(boot.bpb, debug).result
             /\ \A j \in JumpBytes :
                    BootSectorValidate([boot EXCEPT !.bootjmp[1] = j], debug).result = result

\* a boot sector with the right signature and an unknown opcode was accepted
UnknownOpcodeAccepted ==
    /\ Validated
    /\ SigOk
    /\ boot.bootjmp[1] \notin {235, 233}
    /\ result = Ok
    /\ "bootjmp" \in warnings

\* a boot sector with a wrong signature and a BPB that is in error was rejected
\* for its signature
BadSignatureRejected ==
    /\ Validated
    /\ ~SigOk
    /\ boot.bpb.fats = 0
    /\ result = ErrSignature

\* x is a power of two between lo and hi
IsPow2In(x, lo, hi) == lo <= x /\ x <= hi /\ \E k \in 0..15 : x = 2^k

\* the k-th check of validate, in the order of the list, is violated; the
\* last two are defined once the first two hold
Fails(k, bpb) ==
    CASE k = 1 -> ~IsPow2In(bpb.bytes_per_sector, 512, 4096)
      [] k = 2 -> ~IsPow2In(bpb.sectors_per_cluster, 1, 128)
      [] k = 3 -> bpb.reserved_sectors = 0
      [] k = 4 -> bpb.fats = 0
      [] k = 5 -> bpb.sectors_per_fat_16 = 0 /\ bpb.root_entries # 0
      [] k = 6 -> bpb.sectors_per_fat_16 = 0 /\ bpb.total_sectors_16 # 0
      [] k = 7 -> (bpb.total_sectors_16 = 0) = (bpb.total_sectors_32 = Zero)
      [] k = 8 -> bpb.sectors_per_fat_16 = 0 /\ bpb.sectors_per_fat_32 = Zero
      [] k = 9 -> bpb.fs_version # 0
      [] k = 10 -> BigLeq(total_sectors(bpb), first_data_sector(bpb))
      [] k = 11 -> (bpb.sectors_per_fat_16 = 0) # (from_clusters(total_clusters(bpb)) = "Fat32")

ErrorsOf(k) ==
    CASE k = 1 -> {ErrBpsPow2, ErrBpsSmall, ErrBpsLarge}
      [] k = 2 -> {ErrSpcPow2, ErrSpcSmall, ErrSpcLarge}
      [] k = 3 -> {ErrReserved}
      [] k = 4 -> {ErrFats}
      [] k = 5 -> {ErrRootEntries}
      [] k = 6 -> {ErrTotal16}
      [] k = 7 -> {ErrTotalXor}
      [] k = 8 -> {ErrSpf32}
      [] k = 9 -> {ErrFsVersion}
      [] k = 10 -> {ErrTooSmall}
      [] k = 11 -> {ErrFatType}

FieldChecks == 1..9

\* the first violated check, 0 if there is none
FirstFailed(bpb) ==
    IF \E k \in FieldChecks : Fails(k, bpb)
    THEN CHOOSE k \in FieldChecks :
            Fails(k, bpb) /\ \A j \in FieldChecks : Fails(j, bpb) => k <= j
    ELSE IF Fails(10, bpb) THEN 10
    ELSE IF Fails(11, bpb) THEN 11
    ELSE 0

\* C3: validate returns the error of the first violated check in the order
\* bytes_per_sector, sectors_per_cluster, reserved_sectors, fats, FAT32
\* root_entries, FAT32 total_sectors_16, total-sectors XOR, FAT32
\* sectors_per_fat_32, fs_version, too-small, FAT-type mismatch; a later
\* check is not evaluated, so a violated field check never ends in a panic
\* of the arithmetic that follows it; an arithmetic panic happens only in a
\* build with overflow checks.
FailFastOrder ==
    Validated /\ SigOk =>
        LET k == FirstFailed(boot.bpb)
        IN  IF k \in FieldChecks THEN result \in ErrorsOf(k)
            ELSE IF result \in Panics THEN debug
            ELSE IF k = 0 THEN result = Ok
            ELSE result \in ErrorsOf(k)

\* a BPB violating two checks got the error of the earlier one
TwoViolationsReached ==
    /\ Validated
    /\ SigOk
    /\ Fails(3, boot.bpb)
    /\ Fails(4, boot.bpb)
    /\ result = ErrReserved

\* the hard constraints on the fields
FieldConstraints(bpb) ==
    /\ bpb.bytes_per_sector \in {512, 1024, 2048, 4096}
    /\ bpb.sectors_per_cluster \in {1, 2, 4, 8, 16, 32, 64, 128}
    /\ bpb.reserved_sectors >= 1
    /\ bpb.fats >= 1
    /\ (bpb.total_sectors_16 # 0) # (bpb.total_sectors_32 # Zero)
    /\ bpb.fs_version = 0
    /\ is_fat32(bpb) =>
          bpb.root_entries = 0 /\ bpb.total_sectors_16 = 0 /\ bpb.sectors_per_fat_32 # Zero

ValidationErrors == UNION { ErrorsOf(k) : k \in 1..11 }

\* C4: a BPB that validate accepts satisfies every hard constraint on its
\* fields, and a BPB that violates one of them gets an error.
AcceptedFieldsValid ==
    Validated /\ SigOk =>
        /\ result = Ok => FieldConstraints(boot.bpb)
        /\ ~FieldConstraints(boot.bpb) => result \in ValidationErrors

\* a BPB with three FATs was accepted with a warning
ThreeFatsAccepted ==
    /\ Validated
    /\ SigOk
    /\ boot.bpb.fats = 3
    /\ result = Ok
    /\ "fats" \in warnings

\* a BPB with bytes_per_sector = 8192 was rejected
LargeSectorRejected ==
    /\ Validated
    /\ SigOk
    /\ boot.bpb.bytes_per_sector = 8192
    /\ result = ErrBpsLarge

\* C5: for a BPB that validate accepts, is_fat32() holds exactly when
\* from_clusters(total_clusters()) is Fat32; a BPB that passes the checks
\* before it and whose layout disagrees with its cluster count gets the
\* FAT-type error.
LayoutAgreesWithCapacity ==
    Validated /\ SigOk =>
        /\ result = Ok =>
              is_fat32(boot.bpb) = (from_clusters(total_clusters(boot.bpb)) = "Fat32")
        /\ FirstFailed(boot.bpb) = 11 /\ result \notin Panics => result = ErrFatType
        /\ result = ErrFatType => FirstFailed(boot.bpb) = 11

\* a FAT32-form BPB with too few clusters for FAT32 got the FAT-type error
LayoutMismatchReached ==
    /\ Validated
    /\ SigOk
    /\ result = ErrFatType
    /\ is_fat32(boot.bpb)
    /\ from_clusters(total_clusters(boot.bpb)) = "Fat16"


\* reserved_sectors + fats * sectors_per_fat() + root_dir_sectors() as an
\* integer that does not wrap at 32 bits
TrueFirstDataSector(bpb) ==
    BigAdd(BigAdd(N(bpb.reserved_sectors), BigMul(sectors_per_fat(bpb), bpb.fats)),
           N(root_dir_sectors(bpb)))

\* C6: a BPB that passes the field checks and whose total_sectors() is at
\* most reserved_sectors + fats * sectors_per_fat() + root_dir_sectors(),
\* computed without wrapping, gets the too-small error.
TooSmallWithoutWrap ==
    (/\ Validated
     /\ SigOk
     /\ \A k \in FieldChecks : ~Fails(k, boot.bpb)
     /\ BigLeq(total_sectors(boot.bpb), TrueFirstDataSector(boot.bpb)))
    => result = ErrTooSmall

\* a BPB whose FATs alone exceed the volume was accepted: 255 FATs of
\* 16843010 sectors in a volume of 1000000 sectors
WrappedVolumeAccepted ==
    /\ Validated
    /\ SigOk
    /\ result = Ok
    /\ boot.bpb.fats = 255
    /\ BigLess(total_sectors(boot.bpb), TrueFirstDataSector(boot.bpb))

\* C7: a BPB that passes every hard check, and whose first data sector is
\* computed without overflow, is accepted whatever warnings it raises.
WarningsNeverDecide ==
    (/\ Validated
     /\ SigOk
     /\ FirstFailed(boot.bpb) = 0
     /\ ~sectors_per_all_fats_overflows(boot.bpb)
     /\ ~first_data_sector_overflows(boot.bpb))
    => result = Ok

\* a BPB that passes every hard check was not accepted: the size of its FAT
\* in bits does not fit 32 bits
WarningPanicReached ==
    /\ Validated
    /\ SigOk
    /\ FirstFailed(boot.bpb) = 0
    /\ ~sectors_per_all_fats_overflows(boot.bpb)
    /\ ~first_data_sector_overflows(boot.bpb)
    /\ total_fat_entries_overflows(boot.bpb)
    /\ result = PanicMul

----------------------------------------------------------------------------
(* Properties of formatting.                                                *)

Formatting == pc \in {"formatted", "failed"}

\* the FAT type format_bpb is to use
ChosenFatType(opts) ==
    unwrap_or(opts.fat_type,
              determine_fat_type(BigMul(opts.total_sectors, opts.bytes_per_sector)))

\* reserved_sectors + root_dir_sectors + 8 for the options
SmallestVolume(opts) ==
    LET ft == ChosenFatType(opts)
        reserved == IF ft = "Fat32" THEN 4 ELSE 1
        root_entries == IF ft = "Fat32" THEN 0 ELSE unwrap_or(opts.root_entries, 512)
        root_dir_sectors_ ==
            (root_entries * DIR_ENTRY_SIZE + opts.bytes_per_sector - 1) \div opts.bytes_per_sector
    IN  reserved + root_dir_sectors_ + 8

\* C8: format_boot_sector fails with the volume-too-small error exactly
\* when total_sectors <= reserved_sectors + root_dir_sectors + 8.
TooSmallExactly ==
    Formatting =>
        (result = ErrVolumeTooSmall)
            = BigLeq(options.total_sectors, N(SmallestVolume(options)))

\* formatting a volume below the bound ended in the failure of the assertion
\* of determine_bytes_per_cluster
AssertBeforeTooSmall ==
    /\ pc = "failed"
    /\ debug
    /\ BigLeq(options.total_sectors, N(SmallestVolume(options)))
    /\ result = PanicAssert

\* C9: when format_boot_sector returns a boot sector and a FAT type, the
\* type is the one from_clusters gives for total_clusters() of the boot
\* sector, and it is options.fat_type if given, else
\* determine_fat_type(total_sectors * bytes_per_sector); the mismatch error
\* comes with no boot sector; 32768 sectors of 512 bytes are formatted as
\* Fat16.
FormatTypeAgrees ==
    /\ pc = "formatted" =>
          /\ result = Ok
          /\ fat_type = ChosenFatType(options)
          /\ from_clusters(total_clusters(boot.bpb)) = fat_type
    /\ Formatting /\ result = ErrFormatFatType =>
          pc = "failed" /\ boot = DefaultBootSector /\ fat_type = "none"
    /\ (/\ Formatting
        /\ options.total_sectors = N(32768)
        /\ options.bytes_per_sector = 512
        /\ options.fat_type = None
        /\ options.bytes_per_cluster = None)
       => pc = "formatted" /\ fat_type = "Fat16"

\* 16 MiB in 512-byte sectors were formatted as Fat16
SixteenMiBFormatted ==
    /\ pc = "formatted"
    /\ options.total_sectors = N(32768)
    /\ options.bytes_per_sector = 512
    /\ options.fat_type = None
    /\ fat_type = "Fat16"
    /\ from_clusters(total_clusters(boot.bpb)) = "Fat16"

\* a volume whose cluster count does not suit the requested type was refused
FormatMismatchReached ==
    /\ pc = "failed"
    /\ result = ErrFormatFatType
    /\ options.fat_type # None

----------------------------------------------------------------------------
(* Properties of cluster sizing.                                            *)

\* the smallest j in 0..n with total_bytes <= base * 2^j, n if there is none
Doublings(total_bytes, base, n) ==
    IF \E j \in 0..n : BigLeq(total_bytes, BigMul(base, 2^j))
    THEN CHOOSE j \in 0..n :
            /\ BigLeq(total_bytes, BigMul(base, 2^j))
            /\ \A i \in 0..n : BigLeq(total_bytes, BigMul(base, 2^i)) => j <= i
    ELSE n

\* the cluster size of the threshold table of each FAT type
TableValue(total_bytes, ft) ==
    CASE ft = "Fat12" -> 512 * 2^Doublings(total_bytes, N(MB), 6)
      [] ft = "Fat16" ->
            IF BigLeq(total_bytes, N(16 * MB)) THEN 1 * KB
            ELSE 2 * KB * 2^Doublings(total_bytes, N(128 * MB), 4)
      [] ft = "Fat32" ->
            IF BigLeq(total_bytes, N(260 * MB)) THEN 512
            ELSE 4 * KB * 2^Doublings(total_bytes, BigMul(N(GB), 8), 3)

Max(a, b) == IF a < b THEN b ELSE a

\* C10: determine_bytes_per_cluster returns a power of two within
\* [bytes_per_sector, 32 KiB], the value of the threshold table raised to
\* the sector size, and a value that does not decrease with total_bytes.
SizingFollowsTable ==
    pc = "sized" =>
        /\ result = Ok
        /\ is_power_of_two(q_out)
        /\ BigLeq(N(q_in.bytes_per_sector), q_out)
        /\ BigLeq(q_out, N(32 * KB))
        /\ q_out = N(Max(TableValue(q_in.total_bytes, q_in.fat_type), q_in.bytes_per_sector))
        /\ \A t \in SizeSamples :
              BigLeq(t, q_in.total_bytes) =>
                  BigLeq(determine_bytes_per_cluster(t, q_in.fat_type,
                                                     q_in.bytes_per_sector, debug).value,
                         q_out)

\* without overflow checks, a Fat12 volume of more than 4 TiB got clusters of
\* one 512-byte sector
TruncatedSizeReached ==
    /\ pc = "sized"
    /\ ~debug
    /\ q_in.fat_type = "Fat12"
    /\ q_in.bytes_per_sector = 512
    /\ q_in.total_bytes = BigAdd(BigPow2(42), N(1))
    /\ result = Ok
    /\ q_out = N(512)

\* with overflow checks, sizing a Fat12 volume of 512 KiB failed the assertion
AssertionFailureReached ==
    /\ pc = "sized"
    /\ debug
    /\ q_in.fat_type = "Fat12"
    /\ q_in.total_bytes = BigPow2(19)
    /\ result = PanicAssert


----------------------------------------------------------------------------
(* The choice of the FAT type on its own: determine_fat_type applied to a   *)
(* volume size.                                                             *)

TypingInit ==
    /\ debug \in BOOLEAN
    /\ q_in \in [total_bytes : SizeSamples, fat_type : {"none"}, bytes_per_sector : {512}]
    /\ q_out = N(0)
    /\ options = NoOptions
    /\ medium = BlankMedium
    /\ boot = DefaultBootSector
    /\ saved = DefaultBootSector
    /\ fat_type = "none"
    /\ result = "none"
    /\ warnings = {}
    /\ pc = "query"

\* determine_fat_type(total_bytes)
Classify ==
    /\ pc = "query"
    /\ fat_type' = determine_fat_type(q_in.total_bytes)
    /\ result' = Ok
    /\ pc' = "typed"
    /\ UNCHANGED <<debug, options, medium, boot, saved, warnings, q_in, q_out>>

TypingNext == Classify

SpecTyping == TypingInit /\ [][TypingNext]_vars

\* position of a FAT type in the order Fat12 < Fat16 < Fat32
Rank(ft) == CASE ft = "Fat12" -> 1 [] ft = "Fat16" -> 2 [] ft = "Fat32" -> 3

\* C11: determine_fat_type gives Fat12 below 4 MiB (2^22 bytes), Fat16 from
\* 4 MiB to below 512 MiB (2^29 bytes) and Fat32 from 512 MiB on, for every
\* u64 size, and a larger size never gets a smaller type.
FatTypeBrackets ==
    pc = "typed" =>
        /\ fat_type \in FatTypes
        /\ (fat_type = "Fat12") = BigLess(q_in.total_bytes, BigPow2(22))
        /\ (fat_type = "Fat16") = (/\ BigLeq(BigPow2(22), q_in.total_bytes)
                                   /\ BigLess(q_in.total_bytes, BigPow2(29)))
        /\ (fat_type = "Fat32") = BigLeq(BigPow2(29), q_in.total_bytes)
        /\ \A t \in SizeSamples :
              BigLeq(t, q_in.total_bytes) => Rank(determine_fat_type(t)) <= Rank(fat_type)

\* the size of exactly 4 MiB was given Fat16
BoundaryTyped ==
    /\ pc = "typed"
    /\ q_in.total_bytes = BigPow2(22)
    /\ fat_type = "Fat16"

\* the size of exactly 512 MiB was given Fat32
UpperBoundaryTyped ==
    /\ pc = "typed"
    /\ q_in.total_bytes = BigPow2(29)
    /\ fat_type = "Fat32"


----------------------------------------------------------------------------
(* Properties of the sector layout.                                         *)

\* offset of drive_num in the sector
DriveNumOffset(bpb) == IF bpb.sectors_per_fat_16 = 0 THEN 64 ELSE 36

\* C12: serialize writes 512 bytes in both forms: 3 of jump code, 8 of OEM
\* name, a BPB of 25 common bytes, 28 extended bytes only when
\* sectors_per_fat_16 = 0, and 26 tail bytes, then 448 (short form) or 420
\* (FAT32 form) bytes of boot code and 2 of signature; drive_num is at offset
\* 36 or 64 and the signature at offsets 510..511; deserialize reads its
\* last field, the signature, from the last two of the 512 bytes.
SectorLayout ==
    /\ pc \in {"written", "reloaded"} =>
          LET ext == saved.bpb.sectors_per_fat_16 = 0
              bpb_len == 25 + (IF ext THEN 28 ELSE 0) + 26
              code_len == IF ext THEN 420 ELSE 448
          IN  /\ Len(medium) = 512
              /\ 3 + 8 + bpb_len + code_len + 2 = 512
              /\ Len(BpbSerialize(saved.bpb)) = bpb_len
              /\ SubSeq(medium, 1, 3) = saved.bootjmp
              /\ SubSeq(medium, 4, 11) = saved.oem_name
              /\ SubSeq(medium, 12, 11 + bpb_len) = BpbSerialize(saved.bpb)
              /\ medium[DriveNumOffset(saved.bpb) + 1] = saved.bpb.drive_num
              /\ SubSeq(medium, 12 + bpb_len, 510) = SubSeq(saved.boot_code, 1, code_len)
              /\ SubSeq(medium, 511, 512) = saved.boot_sig
    /\ pc \in {"loaded", "reloaded"} =>
          /\ Len(medium) = 512
          /\ boot.boot_sig = SubSeq(medium, 511, 512)
          /\ boot.bpb.drive_num = medium[DriveNumOffset(boot.bpb) + 1]
          /\ 3 + 8 + BpbLen(boot.bpb) + BootCodeLen(boot.bpb) + 2 = 512

\* a boot sector in the FAT32 form was written, its drive_num at offset 64
\* and another value at offset 36
Fat32LayoutWritten ==
    /\ pc = "written"
    /\ saved.bpb.sectors_per_fat_16 = 0
    /\ medium[65] = saved.bpb.drive_num
    /\ medium[37] # saved.bpb.drive_num
    /\ saved.boot_sig = <<85, 170>>

\* a boot sector in the short form was written, its drive_num at offset 36
\* and another value at offset 64
ShortLayoutWritten ==
    /\ pc = "written"
    /\ saved.bpb.sectors_per_fat_16 # 0
    /\ medium[37] = saved.bpb.drive_num
    /\ medium[65] # saved.bpb.drive_num
    /\ saved.boot_sig = <<85, 170>>


\* C13: for every size below 2^48 bytes (a u32 number of sectors times a u16
\* sector size) and every FAT type, the cluster size before the clamp is a
\* power of two and the assertion of determine_bytes_per_cluster holds.
AssertionNeverFails ==
    pc = "sized" /\ BigLess(q_in.total_bytes, BigPow2(48)) =>
        /\ is_power_of_two(bytes_per_cluster_unclamped(q_in.total_bytes, q_in.fat_type))
        /\ result # PanicAssert

\* without debug assertions, a Fat12 volume of 512 KiB went through
\* with a cluster size of 0 before the clamp
ZeroBeforeClampReached ==
    /\ pc = "sized"
    /\ ~debug
    /\ q_in.fat_type = "Fat12"
    /\ q_in.total_bytes = BigPow2(19)
    /\ bytes_per_cluster_unclamped(q_in.total_bytes, q_in.fat_type) = Zero
    /\ result = Ok


----------------------------------------------------------------------------
(* Properties of formatted volumes.                                         *)

\* a boot sector formatted with the default cluster size was validated
FormattedValidated ==
    /\ pc = "validated"
    /\ options # NoOptions
    /\ options.bytes_per_cluster = None

\* C14: a boot sector that format_boot_sector returns for a sector size of
\* 512..4096 and the default cluster size is accepted by validate: right
\* signature, exactly one total-sectors field set, sectors_per_fat_16 = 0
\* exactly for Fat32, and a non-zero FAT size.
FormattedIsValid ==
    FormattedValidated =>
        /\ result = Ok
        /\ boot.boot_sig = <<85, 170>>
        /\ (boot.bpb.total_sectors_16 # 0) # (boot.bpb.total_sectors_32 # Zero)
        /\ (boot.bpb.sectors_per_fat_16 = 0) = (fat_type = "Fat32")
        /\ sectors_per_fat(boot.bpb) # Zero

\* without overflow checks, a volume of 2^32 - 1 sectors was formatted with
\* a FAT of 0 sectors and then rejected by validate
ZeroFatFormatted ==
    /\ FormattedValidated
    /\ ~debug
    /\ options.total_sectors = BigSub(BigPow2(32), N(1))
    /\ fat_type = "Fat32"
    /\ boot.bpb.sectors_per_fat_32 = Zero
    /\ result = ErrSpf32


\* sectors_per_fat() * bytes_per_sector * 8 / bits_per_fat_entry, without
\* wrapping at 32 bits
TrueFatEntries(bpb, ft) ==
    BigDiv(BigMul(BigMul(sectors_per_fat(bpb), bpb.bytes_per_sector), 8),
           bits_per_fat_entry(ft))

\* C15: a BPB that format_bpb returns with the default cluster size has a
\* FAT with an entry for every data cluster besides the reserved entries,
\* and validate does not warn that its FAT is too small.
FatLargeEnough ==
    /\ pc = "formatted" /\ options.bytes_per_cluster = None =>
          BigLeq(BigAdd(total_clusters(boot.bpb), N(RESERVED_FAT_ENTRIES)),
                 TrueFatEntries(boot.bpb, fat_type))
    /\ FormattedValidated /\ result = Ok => "fat_too_small" \notin warnings

\* a Fat12 volume of 8193 sectors was formatted with 3 FAT sectors, which
\* hold 1024 entries, for 1023 clusters and 2 reserved entries, and validate
\* warned about it
UndersizedFatFormatted ==
    /\ FormattedValidated
    /\ options.total_sectors = N(8193)
    /\ options.bytes_per_sector = 512
    /\ fat_type = "Fat12"
    /\ boot.bpb.sectors_per_fat_16 = 3
    /\ total_clusters(boot.bpb) = N(1023)
    /\ TrueFatEntries(boot.bpb, fat_type) = N(1024)
    /\ result = Ok
    /\ "fat_too_small" \in warnings

=============================================================================
